---- MODULE Spec2Model ----
(***************************************************************************)
(* The worker pool of src/main.js (WorkerPool, ImageConverter) and the     *)
(* places that use it (VaultWriter.writeImageFiles, VaultWriter.exportToPDF*)
(* SupernoteView.onLoadFile), as a state machine.                          *)
(*                                                                         *)
(* One step of the main thread is one task of the JavaScript event loop:   *)
(* the synchronous code of the handler and every promise reaction          *)
(* (microtask) it triggers, up to the next point where the code waits for  *)
(* an event.  A worker unit runs on its own thread: it takes one message   *)
(* from its inbox, renders it, and queues one response for the main        *)
(* thread.                                                                 *)
(***************************************************************************)
EXTENDS Integers, Sequences, FiniteSets, TLC

\* ---------------------------------------------------------------- bounds
MaxWorkers == 2
MaxPages == 2
MaxLen == 3
MaxCalls == 2
MaxTerminates == 2
ApiConvs == 1
ApiMaxLen == 2
ChunkMaxLen == 7
ChunkMaxPool == 4

VARIABLES hardwareConcurrency, note, pool, unit, call, tcList, tcSize, tcChunks, tcDone

vars == <<hardwareConcurrency, note, pool, unit, call, tcList, tcSize, tcChunks, tcDone>>

ConvIds == 1..MaxCalls
CallIds == 1..MaxCalls
UnitIds == 1..MaxWorkers

\* ------------------------------------------------------- JavaScript values
\* Math.ceil(x / 0) is Infinity for x > 0 and NaN for x = 0; an array read at
\* index NaN is undefined.
JsInfinity == -1
JsNaN == -2
Undefined == 0

Min(a, b) == IF a < b THEN a ELSE b

\* Math.ceil(a / b) for a >= 0, b >= 0
MathCeilDiv(a, b) ==
    IF b = 0 THEN (IF a = 0 THEN JsNaN ELSE JsInfinity)
    ELSE (a + b - 1) \div b

\* i < n of the for loop, for i a number or Infinity
JsLess(i, n) == IF i = JsInfinity \/ i = JsNaN THEN FALSE ELSE i < n

\* i += chunkSize
JsAdd(i, d) == IF i = JsInfinity \/ d = JsInfinity THEN JsInfinity
               ELSE IF i = JsNaN \/ d = JsNaN THEN JsNaN ELSE i + d

\* list.slice(from, to): from is a number, to a number or Infinity
ArraySlice(list, from, to) ==
    LET stop == IF to = JsInfinity THEN Len(list) ELSE Min(to, Len(list))
    IN IF from >= stop THEN <<>> ELSE SubSeq(list, from + 1, stop)

RECURSIVE Flat(_)
\* results.flat()
Flat(ss) == IF ss = <<>> THEN <<>> ELSE Head(ss) \o Flat(Tail(ss))

\* ----------------------------------------------------------- Task chunker
\* Mutant of ChunkSize: Math.floor in place of Math.ceil (at least 1).
ChunkSizeFloor(len, nWorkers) ==
    IF nWorkers = 0 THEN MathCeilDiv(len, nWorkers)
    ELSE IF len \div nWorkers = 0 THEN Min(len, 1) ELSE len \div nWorkers

\* const chunkSize = Math.ceil(allPageNumbers.length / this.workers.length)
ChunkSize(len, nWorkers) == MathCeilDiv(len, nWorkers)

RECURSIVE ChunkLoop(_, _, _, _)
\* for (let i = 0; i < allPageNumbers.length; i += chunkSize) chunks.push(slice)
ChunkLoop(list, i, chunkSize, chunks) ==
    IF JsLess(i, Len(list))
    THEN ChunkLoop(list, JsAdd(i, chunkSize), chunkSize,
                   Append(chunks, ArraySlice(list, i, JsAdd(i, chunkSize))))
    ELSE chunks

\* Mutant of Chunks: a do-while loop, which pushes one chunk for the empty list.
ChunksAtLeastOne(list, nWorkers) ==
    IF list = <<>> THEN << <<>> >>
    ELSE ChunkLoop(list, 0, ChunkSize(Len(list), nWorkers), <<>>)

Chunks(list, nWorkers) == ChunkLoop(list, 0, ChunkSize(Len(list), nWorkers), <<>>)

\* Mutant of WorkerFor: every chunk goes to the first worker.
WorkerForFirst(workers, index) ==
    IF Len(workers) = 0 THEN Undefined ELSE workers[1]

\* this.workers[index % this.workers.length], index counted from 0
WorkerFor(workers, index) ==
    IF Len(workers) = 0 THEN Undefined ELSE workers[(index % Len(workers)) + 1]

\* ------------------------------------------------------------- the document
Kinds == {"ok", "error", "throw"}

\* A parsed note: numPages pages, and what rendering each page does in a worker:
\* an image, an error caught and reported in the response, or an uncaught
\* error (an error event on the Worker object).  Index numPages + 1 stands for
\* the page numbers outside 1..numPages, which name no page to render.
Notes ==
    UNION { { [numPages |-> n, kind |-> k] :
                k \in { f \in [1..(n + 1) -> Kinds] : f[n + 1] # "ok" } } :
            n \in 0..MaxPages }

Image(p) == [mime |-> "image/png", page |-> p]

NoError == [kind |-> "none", page |-> 0]
TypeError == [kind |-> "TypeError", page |-> 0]

\* Mutant of AllPages: length: note.pages.length + 1.
AllPagesOneMore(n) == [i \in 1..(n + 1) |-> i]

\* Array.from({length: note.pages.length}, (_, i) => i+1)
AllPages(n) == [i \in 1..n |-> i]

PageLists(n) == UNION { [1..l -> 1..(n + 1)] : l \in 0..MaxLen }

\* ------------------------------------------------------------ worker unit
\* The first page of the chunk, in order, whose render fails; 0 when none does.
FirstBad(nt, pages) ==
    LET bad == { j \in 1..Len(pages) : nt.kind[pages[j]] # "ok" }
    IN IF bad = {} THEN 0 ELSE CHOOSE j \in bad : \A m \in bad : j <= m

\* What the worker answers to one 'convert' message.
Render(nt, msg) ==
    LET j == FirstBad(nt, msg.pageNumbers)
    IN IF j = 0
       THEN [type |-> "images",
             images |-> [m \in 1..Len(msg.pageNumbers) |-> Image(msg.pageNumbers[m])],
             error |-> NoError, forCall |-> msg.forCall, forChunk |-> msg.forChunk]
       ELSE [type |-> IF nt.kind[msg.pageNumbers[j]] = "error" THEN "error" ELSE "event",
             images |-> <<>>,
             error |-> [kind |-> IF nt.kind[msg.pageNumbers[j]] = "error"
                                 THEN "response" ELSE "event",
                        page |-> msg.pageNumbers[j]],
             forCall |-> msg.forCall, forChunk |-> msg.forChunk]

\* ------------------------------------------------------------------ state
NoHandler == <<0, 0>>

NoUnit == [constructed |-> FALSE, live |-> FALSE, handler |-> NoHandler,
           inbox |-> <<>>, outbox |-> <<>>, terminated |-> 0, received |-> 0]

NoPool == [created |-> FALSE, workers |-> <<>>, terminateCalls |-> 0]

PendingPromise == [st |-> "pending", images |-> <<>>, error |-> NoError]

NoCall == [state |-> "idle", conv |-> 0, scoped |-> FALSE, omitted |-> FALSE,
           arg |-> <<>>, pages |-> <<>>, chunks |-> <<>>, prom |-> <<>>,
           result |-> <<>>, error |-> NoError, posted |-> 0,
           order |-> <<>>, afterTerminate |-> FALSE,
           outstanding |-> 0, sentTo |-> <<>>]

World == [pool |-> pool, unit |-> unit, call |-> call]

SetWorld(W) ==
    /\ pool' = W.pool
    /\ unit' = W.unit
    /\ call' = W.call

Settled(c) == c.state \in {"resolved", "rejected"}

\* The number of chunk promises of a call not yet settled.
Pending(cl) == Cardinality({ k \in 1..Len(cl.prom) : cl.prom[k].st = "pending" })

\* ------------------------------------------------------------- WorkerPool
\* constructor: this.workers = Array(maxWorkers).fill(null).map(() => new Worker())
WorkerPoolNew(W, c, maxWorkers) ==
    [W EXCEPT !.pool[c] = [created |-> TRUE,
                           workers |-> [k \in 1..maxWorkers |-> k],
                           terminateCalls |-> 0],
              !.unit[c] = [k \in UnitIds |->
                              IF k <= maxWorkers
                              THEN [NoUnit EXCEPT !.constructed = TRUE, !.live = TRUE]
                              ELSE NoUnit]]

\* Mutant of terminate: the array is emptied but worker.terminate() is not
\* called, the workers run on.
terminateForgetsWorkers(W, c) ==
    [W EXCEPT !.pool[c].workers = <<>>,
              !.pool[c].terminateCalls = @ + 1]

\* Mutant of terminate: the array of workers is not emptied.
terminateKeepsWorkers(W, c) ==
    LET ws == { W.pool[c].workers[k] : k \in 1..Len(W.pool[c].workers) }
    IN [W EXCEPT !.pool[c].terminateCalls = @ + 1,
                 !.unit[c] = [k \in UnitIds |->
                                 IF k \in ws
                                 THEN [@[k] EXCEPT !.live = FALSE,
                                                   !.inbox = <<>>,
                                                   !.outbox = <<>>,
                                                   !.terminated = @ + 1]
                                 ELSE @[k]]]

\* terminate(): this.workers.forEach(worker => worker.terminate()); this.workers = []
\* Worker.terminate() stops the unit and discards its queued messages, in both
\* directions; on a unit already stopped it does nothing more.
terminate(W, c) ==
    LET ws == { W.pool[c].workers[k] : k \in 1..Len(W.pool[c].workers) }
    IN [W EXCEPT !.pool[c].workers = <<>>,
                 !.pool[c].terminateCalls = @ + 1,
                 !.unit[c] = [k \in UnitIds |->
                                 IF k \in ws
                                 THEN [@[k] EXCEPT !.live = FALSE,
                                                   !.inbox = <<>>,
                                                   !.outbox = <<>>,
                                                   !.terminated = @ + 1]
                                 ELSE @[k]]]

\* processChunk(worker, note, pageNumbers) for chunk k of call i: the promise's
\* executor installs the handlers on the worker and posts the message.  With
\* worker undefined the first assignment throws, which rejects the promise.
processChunk(W, i, k, w) ==
    LET c == W.call[i].conv
    IN IF w = Undefined
       THEN [W EXCEPT !.call[i].prom[k] = [st |-> "rejected", images |-> <<>>,
                                           error |-> TypeError],
                      !.call[i].order = Append(@, k)]
       ELSE [W EXCEPT !.unit[c][w].handler = <<i, k>>,
                      !.unit[c][w].inbox =
                          IF W.unit[c][w].live
                          THEN Append(@, [type |-> "convert",
                                          pageNumbers |-> W.call[i].chunks[k],
                                          forCall |-> i, forChunk |-> k])
                          ELSE @,
                      !.unit[c][w].received = @ + 1,
                      !.call[i].posted = @ + 1,
                      !.call[i].sentTo = Append(@, <<k, w>>)]

RECURSIVE DispatchFrom(_, _, _)
\* chunks.map((chunk, index) => this.processChunk(this.workers[index % n], note, chunk))
DispatchFrom(W, i, k) ==
    IF k > Len(W.call[i].chunks) THEN W
    ELSE DispatchFrom(
             processChunk(W, i, k, WorkerFor(W.pool[W.call[i].conv].workers, k - 1)),
             i, k + 1)

\* Mutant of promiseAll: the chunks' images are joined in the order in which
\* the chunks completed.
promiseAllCompletionOrder(W, i) ==
    LET cl == W.call[i]
        rej == { k \in 1..Len(cl.prom) : cl.prom[k].st = "rejected" }
        first == CHOOSE k \in rej : \A m \in rej : k <= m
    IN IF cl.state # "pending" THEN W
       ELSE IF rej # {}
       THEN [W EXCEPT !.call[i].state = "rejected",
                      !.call[i].error = cl.prom[first].error,
                      !.call[i].outstanding = Pending(cl)]
       ELSE IF \A k \in 1..Len(cl.prom) : cl.prom[k].st = "fulfilled"
       THEN [W EXCEPT !.call[i].state = "resolved",
                      !.call[i].result =
                          Flat([m \in 1..Len(cl.order) |-> cl.prom[cl.order[m]].images])]
       ELSE W

\* Mutant of promiseAll: Promise.allSettled, keeping the images of the chunks
\* that succeeded.
promiseAllSettled(W, i) ==
    LET cl == W.call[i]
    IN IF cl.state # "pending" THEN W
       ELSE IF \A k \in 1..Len(cl.prom) : cl.prom[k].st # "pending"
       THEN [W EXCEPT !.call[i].state = "resolved",
                      !.call[i].result =
                          Flat([k \in 1..Len(cl.prom) |-> cl.prom[k].images])]
       ELSE W

\* Mutant of promiseAll: every chunk is awaited, and then the failure of the
\* lowest-numbered failed chunk is thrown.
promiseAllWaitsAll(W, i) ==
    LET cl == W.call[i]
        rej == { k \in 1..Len(cl.prom) : cl.prom[k].st = "rejected" }
        first == CHOOSE k \in rej : \A m \in rej : k <= m
    IN IF cl.state # "pending" \/ Pending(cl) > 0 THEN W
       ELSE IF rej # {}
       THEN [W EXCEPT !.call[i].state = "rejected",
                      !.call[i].error = cl.prom[first].error]
       ELSE [W EXCEPT !.call[i].state = "resolved",
                      !.call[i].result =
                          Flat([k \in 1..Len(cl.prom) |-> cl.prom[k].images])]

\* Mutant of promiseAll: Promise.race, which settles with the first chunk.
promiseRace(W, i) ==
    LET cl == W.call[i]
        rej == { k \in 1..Len(cl.prom) : cl.prom[k].st = "rejected" }
        first == CHOOSE k \in rej : \A m \in rej : k <= m
    IN IF cl.state # "pending" THEN W
       ELSE IF rej # {}
       THEN [W EXCEPT !.call[i].state = "rejected",
                      !.call[i].error = cl.prom[first].error,
                      !.call[i].outstanding = Pending(cl)]
       ELSE IF cl.prom = <<>> \/ \E k \in 1..Len(cl.prom) : cl.prom[k].st = "fulfilled"
       THEN [W EXCEPT !.call[i].state = "resolved",
                      !.call[i].outstanding = Pending(cl),
                      !.call[i].result =
                          Flat([k \in 1..Len(cl.prom) |-> cl.prom[k].images])]
       ELSE W

\* Promise.all over the chunk promises of call i, then return results.flat():
\* rejected as soon as one promise is rejected, fulfilled once all are.
promiseAll(W, i) ==
    LET cl == W.call[i]
        rej == { k \in 1..Len(cl.prom) : cl.prom[k].st = "rejected" }
        first == CHOOSE k \in rej : \A m \in rej : k <= m
    IN IF cl.state # "pending" THEN W
       ELSE IF rej # {}
       THEN [W EXCEPT !.call[i].state = "rejected",
                      !.call[i].error = cl.prom[first].error,
                      !.call[i].outstanding = Pending(cl)]
       ELSE IF \A k \in 1..Len(cl.prom) : cl.prom[k].st = "fulfilled"
       THEN [W EXCEPT !.call[i].state = "resolved",
                      !.call[i].result =
                          Flat([k \in 1..Len(cl.prom) |-> cl.prom[k].images])]
       ELSE W

\* Mutant of processPages: each chunk's worker is taken out of this.workers
\* (this.workers.pop()) instead of being read from it.
processPagesPop(W, i, allPageNumbers) ==
    LET c == W.call[i].conv
        cs == Chunks(allPageNumbers, Len(W.pool[c].workers))
        W1 == [W EXCEPT !.call[i].pages = allPageNumbers,
                        !.call[i].chunks = cs,
                        !.call[i].prom = [k \in 1..Len(cs) |-> PendingPromise]]
        W2 == DispatchFrom(W1, i, 1)
        left == IF Len(cs) >= Len(W.pool[c].workers) THEN 0
                ELSE Len(W.pool[c].workers) - Len(cs)
    IN promiseAll([W2 EXCEPT !.pool[c].workers = SubSeq(@, 1, left)], i)

\* processPages(note, allPageNumbers) up to its await
processPages(W, i, allPageNumbers) ==
    LET cs == Chunks(allPageNumbers, Len(W.pool[W.call[i].conv].workers))
        W1 == [W EXCEPT !.call[i].pages = allPageNumbers,
                        !.call[i].chunks = cs,
                        !.call[i].prom = [k \in 1..Len(cs) |-> PendingPromise]]
    IN promiseAll(DispatchFrom(W1, i, 1), i)

\* --------------------------------------------------------- ImageConverter
\* constructor(maxWorkers = navigator.hardwareConcurrency)
ImageConverterNew(W, c, maxWorkers) == WorkerPoolNew(W, c, maxWorkers)

\* convertToImages(note, pageNumbers?) up to its await
convertToImages(W, i, c, omitted, arg, scoped) ==
    LET pages == IF omitted THEN AllPages(note.numPages) ELSE arg
        W1 == [W EXCEPT !.call[i] = [NoCall EXCEPT !.state = "pending",
                                                   !.conv = c,
                                                   !.scoped = scoped,
                                                   !.omitted = omitted,
                                                   !.arg = arg,
                                                   !.afterTerminate =
                                                       W.pool[c].terminateCalls > 0]]
    IN processPages(W1, i, pages)

\* ImageConverter.terminate(): this.workerPool.terminate()
converterTerminate(W, c) == terminate(W, c)

\* --------------------------------------------------------- the call sites
\* Mutant of finally: terminate() after the await, outside any finally block.
finallyOnSuccess(W, i) ==
    IF W.call[i].scoped /\ W.call[i].state = "resolved"
    THEN converterTerminate(W, W.call[i].conv)
    ELSE W

\* try { images = await converter.convertToImages(sn) } finally { converter.terminate() }
\* The finally block runs in the task in which the awaited promise settles.
finally(W, i) ==
    IF W.call[i].scoped /\ Settled(W.call[i])
    THEN converterTerminate(W, W.call[i].conv)
    ELSE W

\* A conversion as the plugin makes it: a converter of its own, one call,
\* the finally block.  The plugin's call sites omit the page list; the
\* parameter is there, so the model passes any list, or none.
ScopedConversion(i, omitted, arg) ==
    /\ call[i].state = "idle"
    /\ \A j \in CallIds : j < i => call[j].state # "idle"
    /\ ~pool[i].created
    /\ SetWorld(finally(
           convertToImages(ImageConverterNew(World, i, hardwareConcurrency),
                           i, i, omitted, arg, TRUE),
           i))
    /\ UNCHANGED <<hardwareConcurrency, note, tcList, tcSize, tcChunks, tcDone>>

Conversion ==
    \E i \in CallIds :
        \/ ScopedConversion(i, TRUE, <<>>)
        \/ \E arg \in PageLists(note.numPages) : ScopedConversion(i, FALSE, arg)

\* ---------------------------------------------------- the worker's thread
\* The worker takes the next message and queues its answer.
WorkerRender ==
    \E c \in ConvIds, w \in UnitIds :
        /\ unit[c][w].live
        /\ unit[c][w].inbox # <<>>
        /\ unit' = [unit EXCEPT ![c][w].inbox = Tail(@),
                                ![c][w].outbox =
                                    Append(@, Render(note, Head(unit[c][w].inbox)))]
        /\ UNCHANGED <<hardwareConcurrency, note, pool, call, tcList, tcSize, tcChunks, tcDone>>

\* Mutant of settlePromise: a failed chunk is posted once more before its
\* promise is rejected.
settlePromiseRetry(W, i, k, r) ==
    IF W.call[i].prom[k].st # "pending" THEN W
    ELSE IF r.type = "images"
    THEN [W EXCEPT !.call[i].prom[k] = [st |-> "fulfilled", images |-> r.images,
                                        error |-> NoError],
                   !.call[i].order = Append(@, k)]
    ELSE IF Cardinality({ m \in 1..Len(W.call[i].sentTo) : W.call[i].sentTo[m][1] = k }) < 2
    THEN processChunk(W, i, k, WorkerFor(W.pool[W.call[i].conv].workers, k - 1))
    ELSE [W EXCEPT !.call[i].prom[k] = [st |-> "rejected", images |-> <<>>,
                                        error |-> r.error],
                   !.call[i].order = Append(@, k)]

\* Mutant of settlePromise: no onerror handler, an error event of the worker
\* settles nothing.
settlePromiseNoOnError(W, i, k, r) ==
    IF W.call[i].prom[k].st # "pending" \/ r.type = "event" THEN W
    ELSE IF r.type = "images"
    THEN [W EXCEPT !.call[i].prom[k] = [st |-> "fulfilled", images |-> r.images,
                                        error |-> NoError],
                   !.call[i].order = Append(@, k)]
    ELSE [W EXCEPT !.call[i].prom[k] = [st |-> "rejected", images |-> <<>>,
                                        error |-> r.error],
                   !.call[i].order = Append(@, k)]

\* worker.onmessage / worker.onerror as installed by processChunk, for promise
\* k of call i.  Settling a settled promise does nothing.
settlePromise(W, i, k, r) ==
    IF W.call[i].prom[k].st # "pending" THEN W
    ELSE IF r.type = "images"
    THEN [W EXCEPT !.call[i].prom[k] = [st |-> "fulfilled", images |-> r.images,
                                        error |-> NoError],
                   !.call[i].order = Append(@, k)]
    ELSE [W EXCEPT !.call[i].prom[k] = [st |-> "rejected", images |-> <<>>,
                                        error |-> r.error],
                   !.call[i].order = Append(@, k)]

\* The main thread's task for one event of a worker: the handler now installed
\* on that worker, the reactions of Promise.all and of the awaits, the caller's
\* finally block.
Deliver ==
    \E c \in ConvIds, w \in UnitIds :
        /\ unit[c][w].live
        /\ unit[c][w].outbox # <<>>
        /\ LET r == Head(unit[c][w].outbox)
               h == unit[c][w].handler
               W0 == [World EXCEPT !.unit[c][w].outbox = Tail(@)]
           IN SetWorld(finally(promiseAll(settlePromise(W0, h[1], h[2], r), h[1]), h[1]))
        /\ UNCHANGED <<hardwareConcurrency, note, tcList, tcSize, tcChunks, tcDone>>

\* ------------------------------------------------------------------- Init
InitPool ==
    /\ pool = [c \in ConvIds |-> NoPool]
    /\ unit = [c \in ConvIds |-> [k \in UnitIds |-> NoUnit]]
    /\ call = [i \in CallIds |-> NoCall]

InitChunkIdle ==
    /\ tcList = <<>>
    /\ tcSize = 1
    /\ tcChunks = <<>>
    /\ tcDone = FALSE

Init ==
    /\ hardwareConcurrency \in 1..MaxWorkers
    /\ note \in Notes
    /\ InitPool
    /\ InitChunkIdle

Next == Conversion \/ WorkerRender \/ Deliver

Spec == Init /\ [][Next]_vars

\* ------------------------------------------- one conversion, run to its end
\* A single conversion at a call site.
ConversionOne ==
    \/ ScopedConversion(1, TRUE, <<>>)
    \/ \E arg \in PageLists(note.numPages) : ScopedConversion(1, FALSE, arg)

NextOne == ConversionOne \/ WorkerRender \/ Deliver

\* The worker threads run and the event loop runs its queued tasks: a worker
\* with a message takes it, a worker's answer is handed to its handler.
FairSpec == Init /\ [][NextOne]_vars /\ WF_vars(WorkerRender) /\ WF_vars(Deliver)

\* ------------------------------------------- the exported classes, used freely
\* new ImageConverter()
ApiNew ==
    \E c \in 1..ApiConvs :
        /\ ~pool[c].created
        /\ \A d \in 1..ApiConvs : d < c => pool[d].created
        /\ SetWorld(ImageConverterNew(World, c, hardwareConcurrency))
        /\ UNCHANGED <<hardwareConcurrency, note, tcList, tcSize, tcChunks, tcDone>>

ApiPageLists(n) == UNION { [1..l -> 1..(n + 1)] : l \in 0..ApiMaxLen }

\* converter.convertToImages(note, pageNumbers?), not awaited before the next use
ApiConvertCall(i, c, omitted, arg) ==
    /\ call[i].state = "idle"
    /\ \A j \in CallIds : j < i => call[j].state # "idle"
    /\ pool[c].created
    /\ SetWorld(convertToImages(World, i, c, omitted, arg, FALSE))
    /\ UNCHANGED <<hardwareConcurrency, note, tcList, tcSize, tcChunks, tcDone>>

ApiConvert ==
    \E i \in CallIds, c \in 1..ApiConvs :
        \/ ApiConvertCall(i, c, TRUE, <<>>)
        \/ \E arg \in ApiPageLists(note.numPages) : ApiConvertCall(i, c, FALSE, arg)

\* converter.terminate(), at any time and any number of times
ApiTerminate ==
    \E c \in 1..ApiConvs :
        /\ pool[c].created
        /\ pool[c].terminateCalls < MaxTerminates
        /\ SetWorld(converterTerminate(World, c))
        /\ UNCHANGED <<hardwareConcurrency, note, tcList, tcSize, tcChunks, tcDone>>

NextApi == ApiNew \/ ApiConvert \/ ApiTerminate \/ WorkerRender \/ Deliver

SpecApi == Init /\ [][NextApi]_vars

\* ------------------------------------------------- the chunker on its own
ChunkLists == UNION { [1..l -> 1..2] : l \in 0..ChunkMaxLen }

InitChunk ==
    /\ hardwareConcurrency = 1
    /\ note = [numPages |-> 0, kind |-> [p \in 1..1 |-> "throw"]]
    /\ InitPool
    /\ tcList \in ChunkLists
    /\ tcSize \in 0..ChunkMaxPool
    /\ tcChunks = <<>>
    /\ tcDone = FALSE

\* lines 96-101 of processPages, applied to tcList with tcSize workers
TaskChunker ==
    /\ ~tcDone
    /\ tcChunks' = Chunks(tcList, tcSize)
    /\ tcDone' = TRUE
    /\ UNCHANGED <<hardwareConcurrency, note, pool, unit, call, tcList, tcSize>>

NextChunk == TaskChunker

SpecChunk == InitChunk /\ [][NextChunk]_vars

\* ---------------------------------------------------------------- claims
Made(i) == call[i].state # "idle"

\* The page list a call asks for: the argument, or every page when it is omitted.
Requested(i) == IF call[i].omitted THEN AllPages(note.numPages) ELSE call[i].arg

Images(pages) == [j \in 1..Len(pages) |-> Image(pages[j])]

ConstructedUnits(c) == { k \in UnitIds : unit[c][k].constructed }

LiveUnits(c) == { k \in UnitIds : unit[c][k].live }

\* C1: a conversion that succeeds returns one image per requested page, entry j
\* being the image of the j-th requested page, whatever the order in which
\* the workers answered.
C1_ResultFollowsRequest ==
    \A i \in CallIds :
        call[i].state = "resolved" =>
            /\ Len(call[i].result) = Len(Requested(i))
            /\ call[i].result = Images(Requested(i))

\* A list given out of natural order, two chunks, the second answered first.
C1_Witness ==
    \E i \in CallIds :
        /\ call[i].state = "resolved"
        /\ ~call[i].omitted
        /\ Len(call[i].arg) >= 2
        /\ call[i].arg[1] > call[i].arg[2]
        /\ call[i].order = <<2, 1>>
        /\ call[i].result = <<Image(call[i].arg[1]), Image(call[i].arg[2])>>

\* C2: every conversion has a pool of its own, and that pool's terminate() has
\* run exactly once when the conversion has ended, with a result or a failure,
\* and not before.
C2_OwnPoolTerminatedOnce ==
    /\ \A i, j \in CallIds : (Made(i) /\ Made(j) /\ i # j) => call[i].conv # call[j].conv
    /\ \A c \in ConvIds : pool[c].created => \E i \in CallIds : Made(i) /\ call[i].conv = c
    /\ \A i \in CallIds :
        /\ Settled(call[i]) => /\ pool[call[i].conv].terminateCalls = 1
                               /\ LiveUnits(call[i].conv) = {}
        /\ call[i].state = "pending" => pool[call[i].conv].terminateCalls = 0

\* One conversion ended with a result and one with a failure, each after its
\* workers had been sent work.
C2_Witness ==
    \E i, j \in CallIds :
        /\ call[i].state = "resolved" /\ call[i].posted > 0
        /\ call[j].state = "rejected" /\ call[j].posted > 0
        /\ pool[call[i].conv].terminateCalls = 1
        /\ pool[call[j].conv].terminateCalls = 1

\* C3: a conversion one of whose chunks failed, by an error response or by an
\* error event, ends as a failure and returns no images, not even those of the
\* chunks that succeeded.
C3_AllOrNothing ==
    \A i \in CallIds :
        /\ (\E k \in 1..Len(call[i].prom) : call[i].prom[k].st = "rejected") =>
               /\ call[i].state = "rejected"
               /\ call[i].error.kind # "none"
        /\ call[i].state = "resolved" =>
               \A k \in 1..Len(call[i].prom) : call[i].prom[k].st = "fulfilled"
        /\ call[i].state # "resolved" => call[i].result = <<>>
        /\ \A c \in ConvIds, w \in UnitIds :
               \A m \in 1..Len(unit[c][w].outbox) :
                   (unit[c][w].outbox[m].type # "images" /\ unit[c][w].outbox[m].forCall = i)
                       => call[i].state # "resolved"

\* One conversion failed on an error response after another of its chunks had
\* succeeded, and one failed on an error event.
C3_Witness ==
    \E i, j \in CallIds :
        /\ call[i].state = "rejected" /\ call[i].error.kind = "response"
        /\ \E k \in 1..Len(call[i].prom) : call[i].prom[k].st = "fulfilled"
        /\ call[j].state = "rejected" /\ call[j].error.kind = "event"

\* C4: a call made on a pool after terminate() fails, whatever its page list.
C4_FailsAfterTerminate ==
    \A i \in CallIds :
        (Made(i) /\ call[i].afterTerminate) => call[i].state = "rejected"

\* C5: terminate() stops every worker unit at most once, however often it is
\* called, and once it has been called the pool holds no worker and no unit
\* of it is live.
C5_TerminateIdempotent ==
    \A c \in ConvIds :
        /\ \A k \in UnitIds : unit[c][k].terminated <= 1
        /\ pool[c].terminateCalls >= 1 =>
               /\ pool[c].workers = <<>>
               /\ LiveUnits(c) = {}
               /\ \A k \in ConstructedUnits(c) : unit[c][k].terminated = 1

\* terminate() called twice on a pool that was never given work.
C5_Witness ==
    \E c \in ConvIds :
        /\ pool[c].terminateCalls >= 2
        /\ ConstructedUnits(c) # {}
        /\ \A i \in CallIds : ~(Made(i) /\ call[i].conv = c)
        /\ \A k \in ConstructedUnits(c) : unit[c][k].terminated = 1 /\ unit[c][k].received = 0

\* C6: a non-empty list is split for poolSize >= 1 workers into at most
\* poolSize chunks, none empty, chunk k being the k-th slice of length
\* ceil(len / poolSize) of the list (the last one possibly shorter), so that
\* the chunks in order make up the list.
C6_ChunksPartition ==
    (tcDone /\ tcList # <<>> /\ tcSize >= 1) =>
        LET len == Len(tcList)
            size == (len + tcSize - 1) \div tcSize
            n == Len(tcChunks)
        IN /\ n >= 1
           /\ n <= tcSize
           /\ \A k \in 1..n :
                  /\ tcChunks[k] # <<>>
                  /\ k < n => Len(tcChunks[k]) = size
                  /\ Len(tcChunks[k]) <= size
                  /\ \A m \in 1..Len(tcChunks[k]) :
                         /\ (k - 1) * size + m <= len
                         /\ tcChunks[k][m] = tcList[(k - 1) * size + m]
           /\ Flat(tcChunks) = tcList

\* 7 pages for 4 workers: chunks of 2, 2, 2 and 1 pages.
C6_Witness ==
    /\ tcDone
    /\ Len(tcList) = 7
    /\ tcSize = 4
    /\ [k \in 1..Len(tcChunks) |-> Len(tcChunks[k])] = <<2, 2, 2, 1>>

\* C7: a call with an empty page list makes no chunk, posts nothing to any
\* worker and returns the empty list.
C7_EmptyListShortCircuits ==
    \A i \in CallIds :
        (Made(i) /\ call[i].pages = <<>>) =>
            /\ call[i].chunks = <<>>
            /\ call[i].prom = <<>>
            /\ call[i].posted = 0
            /\ call[i].state = "resolved"
            /\ call[i].result = <<>>
            /\ \A w \in UnitIds :
                   \A m \in 1..Len(unit[call[i].conv][w].inbox) :
                       unit[call[i].conv][w].inbox[m].forCall # i

\* The empty list given to a pool whose workers are live.
C7_Witness ==
    \E i \in CallIds :
        /\ Made(i)
        /\ ~call[i].omitted
        /\ call[i].arg = <<>>
        /\ call[i].state = "resolved"
        /\ LiveUnits(call[i].conv) # {}

\* C8 as stated: converting a note of 0 pages returns the empty list and no
\* worker unit is constructed for the conversion.
C8_NoUnitForEmptyNote ==
    \A i \in CallIds :
        (Made(i) /\ note.numPages = 0 /\ call[i].omitted) =>
            /\ call[i].state = "resolved"
            /\ call[i].result = <<>>
            /\ ConstructedUnits(call[i].conv) = {}

\* C8 as amended: converting a note of 0 pages returns the empty list and
\* nothing is posted to any worker unit; the converter's constructor has
\* constructed its hardwareConcurrency units all the same, and the call site's
\* terminate() has stopped each of them.
C8_NoWorkForEmptyNote ==
    \A i \in CallIds :
        (Made(i) /\ note.numPages = 0 /\ call[i].omitted) =>
            /\ call[i].state = "resolved"
            /\ call[i].result = <<>>
            /\ call[i].posted = 0
            /\ Cardinality(ConstructedUnits(call[i].conv)) = hardwareConcurrency
            /\ \A k \in ConstructedUnits(call[i].conv) :
                   /\ unit[call[i].conv][k].received = 0
                   /\ unit[call[i].conv][k].terminated = 1
                   /\ ~unit[call[i].conv][k].live

C8_Witness ==
    \E i \in CallIds :
        /\ note.numPages = 0
        /\ call[i].omitted
        /\ call[i].state = "resolved"
        /\ hardwareConcurrency >= 2

\* C9: a call whose page list holds a number outside 1..numPages is rejected
\* and nothing is posted to any worker for it.
C9_InvalidIndexRejectedBeforeDispatch ==
    \A i \in CallIds :
        (Made(i) /\ \E j \in 1..Len(Requested(i)) :
                        Requested(i)[j] \notin 1..note.numPages) =>
            /\ call[i].posted = 0
            /\ call[i].state = "rejected"

\* C10: two conversions of the same note with the same page list that have
\* both ended have ended alike, and when with a result, with the same images
\* in the same order.
C10_SameRequestSameOutcome ==
    \A i, j \in CallIds :
        (Settled(call[i]) /\ Settled(call[j]) /\ Requested(i) = Requested(j)) =>
            /\ call[i].state = call[j].state
            /\ call[i].state = "resolved" =>
                   /\ Len(call[i].result) = Len(call[j].result)
                   /\ \A m \in 1..Len(call[i].result) :
                          call[i].result[m].page = call[j].result[m].page

\* Two conversions of the same list whose workers answered in different orders.
C10_Witness ==
    \E i, j \in CallIds :
        /\ i # j
        /\ call[i].state = "resolved" /\ call[j].state = "resolved"
        /\ Requested(i) = Requested(j)
        /\ Len(Requested(i)) >= 2
        /\ call[i].order = <<1, 2>>
        /\ call[j].order = <<2, 1>>

\* C11: without a page list the pages handed to processPages are 1, 2, ...,
\* numPages in that order; with a page list they are that list; and the
\* chunks posted to the workers make up exactly those pages.
C11_DefaultPages ==
    \A i \in CallIds :
        Made(i) =>
            /\ call[i].omitted =>
                   /\ Len(call[i].pages) = note.numPages
                   /\ \A j \in 1..Len(call[i].pages) : call[i].pages[j] = j
            /\ ~call[i].omitted => call[i].pages = call[i].arg
            /\ Flat(call[i].chunks) = call[i].pages
            /\ call[i].posted = Len(call[i].chunks)

\* One call without a list on a note of two pages, one with the list 2, 1.
C11_Witness ==
    \E i, j \in CallIds :
        /\ Made(i) /\ call[i].omitted /\ call[i].pages = <<1, 2>>
        /\ Made(j) /\ ~call[j].omitted /\ call[j].pages = <<2, 1>>

\* The first chunk promise of a call to be rejected, in time; 0 when none is.
FirstRejected(cl) ==
    LET at == { m \in 1..Len(cl.order) : cl.prom[cl.order[m]].st = "rejected" }
    IN IF at = {} THEN 0 ELSE cl.order[CHOOSE m \in at : \A n \in at : m <= n]

\* C12: a call is rejected as soon as one of its chunks is, whether or not
\* other chunks are still outstanding, and with the error of the chunk that
\* was rejected first in time.
C12_FirstFailureSurfaces ==
    \A i \in CallIds :
        /\ (Made(i) /\ FirstRejected(call[i]) # 0) =>
               /\ call[i].state = "rejected"
               /\ call[i].error = call[i].prom[FirstRejected(call[i])].error
        /\ call[i].state = "rejected" => FirstRejected(call[i]) # 0

\* Chunk 2 failed first, while chunk 1 was outstanding; chunk 1 failed later
\* with another error, and the call still carries chunk 2's.
C12_Witness ==
    \E i \in CallIds :
        /\ call[i].state = "rejected"
        /\ call[i].order = <<2, 1>>
        /\ call[i].outstanding = 1
        /\ call[i].prom[1].st = "rejected"
        /\ call[i].prom[1].error # call[i].prom[2].error
        /\ call[i].error = call[i].prom[2].error

\* C13 as stated: a call has not ended, with a result or with a failure, while
\* one of its chunks was outstanding.
C13_NeverEndsWhileOutstanding ==
    \A i \in CallIds :
        Settled(call[i]) => call[i].outstanding = 0

\* C13 as amended: a call does not end with a result while one of its chunks is
\* outstanding; it ends with a failure only once a chunk has failed, and then
\* at once, outstanding chunks or not; until a chunk fails or all have
\* answered it stays suspended.
C13_NoResultWhileOutstanding ==
    \A i \in CallIds :
        /\ call[i].state = "resolved" =>
               /\ Pending(call[i]) = 0
               /\ call[i].outstanding = 0
        /\ call[i].state = "rejected" => FirstRejected(call[i]) # 0
        /\ (Made(i) /\ FirstRejected(call[i]) = 0 /\ Pending(call[i]) > 0) =>
               call[i].state = "pending"

\* A call that ended with a failure while a chunk handed to a worker had not
\* been answered.
C13_Witness ==
    \E i \in CallIds :
        /\ call[i].state = "rejected"
        /\ call[i].posted = 2
        /\ call[i].outstanding = 1
        /\ Pending(call[i]) = 1

\* C14: once a conversion has ended with a failure, every worker unit of its
\* pool has been terminated, those with a chunk still outstanding too: none
\* is live, none holds a queued message, and the pool holds no worker.
C14_NoLiveUnitAfterFailure ==
    \A i \in CallIds :
        call[i].state = "rejected" =>
            /\ pool[call[i].conv].workers = <<>>
            /\ LiveUnits(call[i].conv) = {}
            /\ \A k \in ConstructedUnits(call[i].conv) :
                   /\ unit[call[i].conv][k].terminated = 1
                   /\ unit[call[i].conv][k].inbox = <<>>
                   /\ unit[call[i].conv][k].outbox = <<>>

\* A failure with a chunk outstanding on the pool's other unit, which has
\* been terminated with it.
C14_Witness ==
    \E i \in CallIds :
        /\ call[i].state = "rejected"
        /\ call[i].outstanding >= 1
        /\ Cardinality(ConstructedUnits(call[i].conv)) = 2
        /\ \E k \in 1..Len(call[i].sentTo) :
               /\ call[i].prom[call[i].sentTo[k][1]].st = "pending"
               /\ unit[call[i].conv][call[i].sentTo[k][2]].terminated = 1
               /\ ~unit[call[i].conv][call[i].sentTo[k][2]].live

\* The number of times chunk k of a call was posted to a worker.
TimesPosted(cl, k) == Cardinality({ m \in 1..Len(cl.sentTo) : cl.sentTo[m][1] = k })

\* The messages for chunk k of call i now queued at a unit, either way.
Queued(i, k) ==
    { <<w, m>> \in UnitIds \X (1..MaxLen) :
          m <= Len(unit[call[i].conv][w].inbox)
          /\ unit[call[i].conv][w].inbox[m].forCall = i
          /\ unit[call[i].conv][w].inbox[m].forChunk = k }
    \cup
    { <<w, m + MaxLen>> : <<w, m>> \in
          { <<v, n>> \in UnitIds \X (1..MaxLen) :
                n <= Len(unit[call[i].conv][v].outbox)
                /\ unit[call[i].conv][v].outbox[n].forCall = i
                /\ unit[call[i].conv][v].outbox[n].forChunk = k } }

\* C15: in one call every chunk is posted exactly once, to one worker, and is
\* not posted again after a failure.
C15_EachChunkPostedOnce ==
    \A i \in CallIds :
        Made(i) =>
            /\ \A k \in 1..Len(call[i].chunks) :
                   /\ TimesPosted(call[i], k) = 1
                   /\ Cardinality(Queued(i, k)) <= 1
            /\ Len(call[i].sentTo) = Len(call[i].chunks)
            /\ call[i].posted = Len(call[i].chunks)

\* A call of two chunks one of which has failed.
C15_Witness ==
    \E i \in CallIds :
        /\ call[i].state = "rejected"
        /\ Len(call[i].chunks) = 2
        /\ TimesPosted(call[i], 1) = 1
        /\ TimesPosted(call[i], 2) = 1

\* C16: a pool holds the workers its constructor made, as many as the
\* hardware parallelism, all live, until terminate() is called, whatever
\* calls succeed or fail on it; from then on it holds none; no unit is ever
\* added.
C16_PoolSizeFixed ==
    \A c \in ConvIds :
        pool[c].created =>
            /\ ConstructedUnits(c) = 1..hardwareConcurrency
            /\ pool[c].terminateCalls = 0 =>
                   /\ pool[c].workers = [k \in 1..hardwareConcurrency |-> k]
                   /\ LiveUnits(c) = 1..hardwareConcurrency
            /\ pool[c].terminateCalls > 0 =>
                   /\ pool[c].workers = <<>>
                   /\ LiveUnits(c) = {}

\* A pool not yet terminated on which one call has succeeded and one failed.
C16_Witness ==
    \E c \in ConvIds, i, j \in CallIds :
        /\ pool[c].terminateCalls = 0
        /\ call[i].conv = c /\ call[i].state = "resolved" /\ call[i].posted > 0
        /\ call[j].conv = c /\ call[j].state = "rejected" /\ call[j].posted > 0
        /\ Len(pool[c].workers) = hardwareConcurrency

\* C17: in a call on a pool of live workers, chunk k (counted from 0) is
\* posted to worker k mod poolSize, no worker gets two chunks of the call, the
\* handlers on a worker are those of the chunk it has been sent for as long
\* as that chunk is queued, and a chunk's promise is settled by the answer to
\* that chunk.
C17_OneChunkPerWorker ==
    \A i \in CallIds :
        Made(i) =>
            /\ \A m \in 1..Len(call[i].sentTo) :
                   call[i].sentTo[m][2] =
                       ((call[i].sentTo[m][1] - 1) % hardwareConcurrency) + 1
            /\ \A m, n \in 1..Len(call[i].sentTo) :
                   m # n => call[i].sentTo[m][2] # call[i].sentTo[n][2]
            /\ \A w \in UnitIds :
                   /\ \A m \in 1..Len(unit[call[i].conv][w].inbox) :
                          unit[call[i].conv][w].handler =
                              <<unit[call[i].conv][w].inbox[m].forCall,
                                unit[call[i].conv][w].inbox[m].forChunk>>
                   /\ \A m \in 1..Len(unit[call[i].conv][w].outbox) :
                          unit[call[i].conv][w].handler =
                              <<unit[call[i].conv][w].outbox[m].forCall,
                                unit[call[i].conv][w].outbox[m].forChunk>>
            /\ \A k \in 1..Len(call[i].prom) :
                   /\ call[i].prom[k].st = "fulfilled" =>
                          call[i].prom[k].images = Images(call[i].chunks[k])
                   /\ call[i].prom[k].st = "rejected" =>
                          \E j \in 1..Len(call[i].chunks[k]) :
                              call[i].chunks[k][j] = call[i].prom[k].error.page

\* Two chunks, sent to workers 1 and 2, both answered.
C17_Witness ==
    \E i \in CallIds :
        /\ call[i].state = "resolved"
        /\ call[i].sentTo = << <<1, 1>>, <<2, 2>> >>
        /\ call[i].prom[1].st = "fulfilled"
        /\ call[i].prom[2].st = "fulfilled"

\* C18: when the workers answer every message and every answer is delivered,
\* and terminate() is called only by the call's own cleanup, every
\* convertToImages call that has started ends, resolved or rejected.
C18_EveryCallCompletes ==
    \A i \in CallIds : (call[i].state = "pending") ~> Settled(call[i])

\* A call of two chunks has ended after both were answered, the second chunk
\* first.
C18_Witness ==
    /\ call[1].state = "resolved"
    /\ call[1].posted = 2
    /\ call[1].order = <<2, 1>>
    /\ pool[1].terminateCalls = 1

\* C19: a call that is pending when terminate() has been called on its pool
\* is pending after every step, the terminate() step included, and the
\* stopped workers hold no message or answer that could still be delivered.
C19_PendingForeverAfterTerminate ==
    [][\A i \in CallIds :
           (call[i].state = "pending" /\ pool'[call[i].conv].terminateCalls > 0) =>
               /\ call'[i].state = "pending"
               /\ call'[i].prom = call[i].prom
               /\ \A w \in UnitIds :
                      /\ unit'[call[i].conv][w].inbox = <<>>
                      /\ unit'[call[i].conv][w].outbox = <<>>]_vars

\* A call with posted chunks unanswered on a pool that has been terminated.
C19_Witness ==
    \E i \in CallIds :
        /\ call[i].state = "pending"
        /\ ~call[i].afterTerminate
        /\ call[i].posted > 0
        /\ Pending(call[i]) > 0
        /\ pool[call[i].conv].terminateCalls > 0

\* C20: with calls sharing one converter, an answer queued on a worker is
\* handed to the handler of the call and chunk it answers, and a call that
\* resolves returns the images of the pages it asked for.
C20_AnswersReachTheirOwnCall ==
    \A i \in CallIds :
        Made(i) =>
            /\ call[i].state = "resolved" => call[i].result = Images(Requested(i))
            /\ \A w \in UnitIds :
                   \A m \in 1..Len(unit[call[i].conv][w].outbox) :
                       unit[call[i].conv][w].handler =
                           <<unit[call[i].conv][w].outbox[m].forCall,
                             unit[call[i].conv][w].outbox[m].forChunk>>

====
